---------------------------- MODULE Spec2Model ----------------------------
(***************************************************************************)
(* State-machine model of the UI state synchronisation logic of the NVR    *)
(* operator console: the auth request interceptor, the URL parameter       *)
(* helpers, the camera selection store, the colour mode provider and the   *)
(* throttle helper.  Each subsystem has its own specification; the         *)
(* variables of the other subsystems stay at their initial values.         *)
(***************************************************************************)
EXTENDS Integers, Sequences, FiniteSets, TLC

VARIABLES
    auth,            \* the `auth` value captured by the registered interceptor
    user,            \* value of the `user` cookie (Cookies.get().user)
    pending,         \* requests suspended at `await getToken(config)`
    done,            \* the request the interceptor settled last
    href,            \* window.location.href, a sequence of lexical tokens
    urlOp,           \* the last URL helper call and the href it started from
    store,           \* the zustand camera store state
    camOp,           \* the last store call and the state it started from
    mode,            \* ColorModeProvider `mode` state
    chosenMode,      \* localStorage item "chosenMode"
    systemDark,      \* the live result of (prefers-color-scheme: dark)
    preferredMode,   \* `preferredMode` as seen by the last render
    effectPending,   \* the useEffect([preferredMode]) is scheduled
    mounted,         \* ColorModeProvider is mounted
    modeOp,          \* the last step of the provider
    now,             \* new Date().getTime()
    lastTime,        \* `lastTime` of the throttle closure
    timeFrame,       \* `timeFrame` of the throttle closure
    runs,            \* clock values at which func ran
    calls,           \* number of calls of the throttled function so far
    thrOp,           \* the last throttle step and what it started from
    camerasQuery,    \* useCameras({}).data of the Events page
    failedQuery,     \* useCamerasFailed({}).data of the Events page
    searchParams,    \* useSearchParams() of the Events page
    evDue,           \* the camera effect of the Events page is scheduled
    evOp             \* the last run of that effect and how it ended

authVars == <<auth, user, pending, done>>
urlVars == <<href, urlOp>>
camVars == <<store, camOp>>
modeVars == <<mode, chosenMode, systemDark, preferredMode, effectPending,
              mounted, modeOp>>
thrVars == <<now, lastTime, timeFrame, runs, calls, thrOp>>
evVars == <<camerasQuery, failedQuery, searchParams, evDue, evOp>>
vars == <<authVars, urlVars, camVars, modeVars, thrVars, evVars>>

(***************************************************************************)
(* Bounds of the model.                                                    *)
(***************************************************************************)
MaxPending == 2
MaxUrlLen == 4
MaxInserts == 2
MaxCam == 3
MaxClock == 5
MaxTimeFrame == 3
MaxCalls == 4

Last(s) == s[Len(s)]

(***************************************************************************)
(* Auth request interceptor (context/AuthContext).                         *)
(***************************************************************************)

\* `auth` is undefined until the auth-enabled query has data.
AuthUndefined == [loaded |-> FALSE, enabled |-> FALSE]
AuthLoaded(b) == [loaded |-> TRUE, enabled |-> b]

\* JS undefined / null are written as reserved strings.
CookieAbsent == "<undefined>"
CookieValues == {CookieAbsent, "", "admin"}
TokenNull == "<null>"
TokenResults == {TokenNull, "", "tokA", "tokB"}

\* JS truthiness of a string | null | undefined value.
Truthy(v) == v \notin {CookieAbsent, TokenNull, ""}

\* A request URL is a sequence of path segments, each preceded by "/";
\* config.url may be undefined.
UrlUndefined == [defined |-> FALSE, segs |-> <<>>]
Url(segs) == [defined |-> TRUE, segs |-> segs]
AuthEnabledPath == <<"auth", "enabled">>
AuthLoginPath == <<"auth", "login">>
OnboardingPath == <<"onboarding">>
AuthTokenPath == <<"auth", "token">>
RequestUrls ==
    { UrlUndefined,
      Url(<<"auth", "enabled">>),
      Url(<<"api", "v1", "auth", "login">>),
      Url(<<"onboarding">>),
      Url(<<"auth", "token">>),
      Url(<<"cameras">>),
      Url(<<"auth", "user">>) }

\* config.url?.includes(path): undefined when the URL is undefined (falsy).
UrlIncludes(url, path) ==
    /\ url.defined
    /\ \E i \in 0..(Len(url.segs) - Len(path)) :
          SubSeq(url.segs, i + 1, i + Len(path)) = path

\* The Authorization header of a request config.
NoAuthorization == <<>>
Bearer(token) == <<"Bearer", token>>
InitialHeaders == {NoAuthorization, <<"Basic", "creds">>}

BlockedError == "Request blocked, auth not loaded yet."
InvalidSessionError == "Invalid session."
SessionExpiredToast == "Session expired, please log in again"
GetTokenError == "getToken rejected"

Outcome(kind, error, toast) == [kind |-> kind, error |-> error, toast |-> toast]

Interceptor_NoBlock(a, cookieUser, url) ==
    IF ~a.loaded THEN Outcome("return", "", <<>>)
    ELSE IF ~a.enabled THEN Outcome("return", "", <<>>)
    ELSE IF \/ UrlIncludes(url, AuthEnabledPath)
            \/ UrlIncludes(url, AuthLoginPath)
            \/ UrlIncludes(url, OnboardingPath)
         THEN Outcome("return", "", <<>>)
    ELSE IF Truthy(cookieUser) /\ UrlIncludes(url, AuthTokenPath)
         THEN Outcome("return", "", <<>>)
    ELSE IF ~Truthy(cookieUser)
         THEN Outcome("throw", InvalidSessionError, <<SessionExpiredToast>>)
    ELSE Outcome("getToken", "", <<>>)

Interceptor_TokenFirst(a, cookieUser, url) ==
    IF ~a.loaded /\ UrlIncludes(url, AuthEnabledPath)
         THEN Outcome("return", "", <<>>)
    ELSE IF ~a.loaded THEN Outcome("throw", BlockedError, <<>>)
    ELSE IF ~a.enabled THEN Outcome("return", "", <<>>)
    ELSE IF \/ UrlIncludes(url, AuthEnabledPath)
            \/ UrlIncludes(url, AuthLoginPath)
            \/ UrlIncludes(url, OnboardingPath)
            \/ UrlIncludes(url, AuthTokenPath)
         THEN Outcome("return", "", <<>>)
    ELSE IF ~Truthy(cookieUser)
         THEN Outcome("throw", InvalidSessionError, <<SessionExpiredToast>>)
    ELSE Outcome("getToken", "", <<>>)

Interceptor_NoTokenBypass(a, cookieUser, url) ==
    IF ~a.loaded /\ UrlIncludes(url, AuthEnabledPath)
         THEN Outcome("return", "", <<>>)
    ELSE IF ~a.loaded THEN Outcome("throw", BlockedError, <<>>)
    ELSE IF ~a.enabled THEN Outcome("return", "", <<>>)
    ELSE IF \/ UrlIncludes(url, AuthEnabledPath)
            \/ UrlIncludes(url, AuthLoginPath)
            \/ UrlIncludes(url, OnboardingPath)
         THEN Outcome("return", "", <<>>)
    ELSE IF ~Truthy(cookieUser)
         THEN Outcome("throw", InvalidSessionError, <<SessionExpiredToast>>)
    ELSE Outcome("getToken", "", <<>>)

\* The synchronous part of the request interceptor, up to `await getToken`.
Interceptor(a, cookieUser, url) ==
    IF ~a.loaded /\ UrlIncludes(url, AuthEnabledPath)
         THEN Outcome("return", "", <<>>)
    ELSE IF ~a.loaded THEN Outcome("throw", BlockedError, <<>>)
    ELSE IF ~a.enabled THEN Outcome("return", "", <<>>)
    ELSE IF \/ UrlIncludes(url, AuthEnabledPath)
            \/ UrlIncludes(url, AuthLoginPath)
            \/ UrlIncludes(url, OnboardingPath)
         THEN Outcome("return", "", <<>>)
    ELSE IF Truthy(cookieUser) /\ UrlIncludes(url, AuthTokenPath)
         THEN Outcome("return", "", <<>>)
    ELSE IF ~Truthy(cookieUser)
         THEN Outcome("throw", InvalidSessionError, <<SessionExpiredToast>>)
    ELSE Outcome("getToken", "", <<>>)

SetAuthorization_Never(headers, token) == headers

\* if (token) headers.set("Authorization", `Bearer ${token}`)
SetAuthorization(headers, token) ==
    IF Truthy(token) THEN Bearer(token) ELSE headers

\* A request as the interceptor saw and settled it.  st: "none" (no request
\* yet), "sent" (config returned to axios), "rejected" (the interceptor threw).
NoRequest ==
    [url |-> UrlUndefined, headers0 |-> NoAuthorization, authSeen |-> AuthUndefined,
     userSeen |-> CookieAbsent, st |-> "none", error |-> "", toast |-> <<>>,
     tokenCalled |-> FALSE, tokenDone |-> FALSE, token |-> TokenNull,
     headers |-> NoAuthorization]

NewRequest(url, headers0) ==
    [NoRequest EXCEPT !.url = url, !.headers0 = headers0, !.headers = headers0,
                      !.authSeen = auth, !.userSeen = user]

\* useAuthEnabled resolves or refetches; the layout effect re-registers the
\* interceptor with the new `auth`.
AuthQueryData(b) ==
    /\ auth' = AuthLoaded(b)
    /\ UNCHANGED <<user, pending, done>>
    /\ UNCHANGED <<urlVars, camVars, modeVars, thrVars, evVars>>

\* Login, logout or expiry changes the `user` cookie.
CookieChange(v) ==
    /\ v # user
    /\ user' = v
    /\ UNCHANGED <<auth, pending, done>>
    /\ UNCHANGED <<urlVars, camVars, modeVars, thrVars, evVars>>

\* A request enters the interceptor and runs to its first return, throw or
\* await.
Request(url, headers0) ==
    LET o == Interceptor(auth, user, url)
        r == NewRequest(url, headers0)
    IN  /\ IF o.kind = "getToken"
              THEN /\ Len(pending) < MaxPending
                   /\ pending' = Append(pending, [r EXCEPT !.tokenCalled = TRUE])
                   /\ done' = done
              ELSE /\ pending' = pending
                   /\ done' = [r EXCEPT
                                 !.st = IF o.kind = "return" THEN "sent" ELSE "rejected",
                                 !.error = o.error,
                                 !.toast = o.toast]
        /\ UNCHANGED <<auth, user>>
        /\ UNCHANGED <<urlVars, camVars, modeVars, thrVars, evVars>>

RemoveAt(s, i) == SubSeq(s, 1, i - 1) \o SubSeq(s, i + 1, Len(s))

\* getToken resolves with `token`; the interceptor sets the header and returns.
GetTokenResolved(i, token) ==
    /\ i \in 1..Len(pending)
    /\ done' = [pending[i] EXCEPT
                  !.st = "sent", !.tokenDone = TRUE, !.token = token,
                  !.headers = SetAuthorization(pending[i].headers0, token)]
    /\ pending' = RemoveAt(pending, i)
    /\ UNCHANGED <<auth, user>>
    /\ UNCHANGED <<urlVars, camVars, modeVars, thrVars, evVars>>

\* getToken rejects; the await rethrows and the request is rejected.
GetTokenRejected(i) ==
    /\ i \in 1..Len(pending)
    /\ done' = [pending[i] EXCEPT
                  !.st = "rejected", !.tokenDone = TRUE, !.error = GetTokenError]
    /\ pending' = RemoveAt(pending, i)
    /\ UNCHANGED <<auth, user>>
    /\ UNCHANGED <<urlVars, camVars, modeVars, thrVars, evVars>>

(***************************************************************************)
(* URL parameter helpers (lib/helpers).  A URL is a sequence of lexical    *)
(* tokens: the separators "?", "&", "=" and names that contain none of     *)
(* them.                                                                   *)
(***************************************************************************)
UrlBase == "http://nvr/#/events"
UrlTokens == {"?", "&", "=", "date", "x"}
UrlKeys == {<<"date">>}
UrlValues == {<<"2024-01-01">>, <<"x">>}

RECURSIVE SeqsUpTo(_, _)
SeqsUpTo(S, n) ==
    IF n = 0 THEN {<<>>}
    ELSE LET shorter == SeqsUpTo(S, n - 1)
         IN  shorter \cup {Append(s, t) : s \in shorter, t \in S}

IndexOf(s, tok) ==
    IF \E i \in 1..Len(s) : s[i] = tok
    THEN CHOOSE i \in 1..Len(s) : s[i] = tok /\ \A j \in 1..(i - 1) : s[j] # tok
    ELSE 0

\* String.prototype.split(sep) for a one-token separator.
RECURSIVE Split(_, _)
Split(s, sep) ==
    LET i == IndexOf(s, sep)
    IN  IF i = 0 THEN <<s>>
        ELSE <<SubSeq(s, 1, i - 1)>> \o Split(SubSeq(s, i + 1, Len(s)), sep)

\* Array.prototype.join(sep).
RECURSIVE Join(_, _)
Join(parts, sep) ==
    IF Len(parts) = 0 THEN <<>>
    ELSE IF Len(parts) = 1 THEN parts[1]
    ELSE parts[1] \o <<sep>> \o Join(Tail(parts), sep)

\* String.prototype.startsWith(prefix).
StartsWith(s, prefix) ==
    Len(s) >= Len(prefix) /\ SubSeq(s, 1, Len(prefix)) = prefix

removeURLParameter(url, parameter) ==
    LET parts == Split(url, "?")
        base == parts[1]
        keep(param) == ~StartsWith(param, parameter \o <<"=">>)
    IN  IF Len(parts) < 2 \/ parts[2] = <<>>
        THEN url
        ELSE LET params == SelectSeq(Split(parts[2], "&"), keep)
             IN  IF Len(params) # 0
                 THEN base \o <<"?">> \o Join(params, "&")
                 ELSE base

\* The URL insertURLParameter pushes to the history.
insertURLParameterUrl(currentHref, key, value) ==
    LET currentURL == removeURLParameter(currentHref, key)
        queryStart == IF IndexOf(currentURL, "?") # 0 THEN "&" ELSE "?"
    IN  currentURL \o <<queryStart>> \o key \o <<"=">> \o value

NoUrlOp == [op |-> "none", key |-> <<>>, value |-> <<>>, before |-> <<>>, count |-> 0]

\* insertURLParameter(key, value); pushState makes newurl the current URL.
insertURLParameter(key, value) ==
    /\ urlOp.count < MaxInserts
    /\ href' = insertURLParameterUrl(href, key, value)
    /\ urlOp' = [op |-> "insert", key |-> key, value |-> value, before |-> href,
                 count |-> urlOp.count + 1]
    /\ UNCHANGED <<authVars, camVars, modeVars, thrVars, evVars>>

(***************************************************************************)
(* Camera selection store (components/events/utils, useCameraStore).       *)
(* `cameras` is a JS object: a sequence of key/value entries in insertion  *)
(* order (camera identifiers are not integer-like keys).                   *)
(***************************************************************************)
CamNames == <<"front", "back", "garage", "yard", "door", "attic">>
CameraIds == {CamNames[i] : i \in 1..MaxCam}

ObjKeys(obj) == [i \in 1..Len(obj) |-> obj[i].key]
ObjHas(obj, k) == \E i \in 1..Len(obj) : obj[i].key = k
\* obj[k] read as a boolean: undefined (no such key) is falsy.
ObjTruthy(obj, k) == \E i \in 1..Len(obj) : obj[i].key = k /\ obj[i].value
\* obj[k] = v: an existing key keeps its position, a new key goes last.
ObjSet(obj, k, v) ==
    IF ObjHas(obj, k)
    THEN [i \in 1..Len(obj) |-> IF obj[i].key = k THEN [key |-> k, value |-> v]
                                ELSE obj[i]]
    ELSE Append(obj, [key |-> k, value |-> v])

\* Object.entries(obj).filter(([_key, value]) => value).map(([key]) => key)
TruthyKeys(obj) ==
    LET isSet(e) == e.value
    IN  ObjKeys(SelectSeq(obj, isSet))

toggleCameraState_KeepOrder(state, cameraIdentifier) ==
    LET flag == ~ObjTruthy(state.cameras, cameraIdentifier)
        newCameras == ObjSet(state.cameras, cameraIdentifier, flag)
    IN  [cameras |-> newCameras,
         selectedCameras |-> TruthyKeys(newCameras),
         selectionOrder |-> IF flag
                            THEN Append(state.selectionOrder, cameraIdentifier)
                            ELSE state.selectionOrder]

\* The state toggleCamera's set() callback returns.
toggleCameraState(state, cameraIdentifier) ==
    LET flag == ~ObjTruthy(state.cameras, cameraIdentifier)
        newCameras == ObjSet(state.cameras, cameraIdentifier, flag)
        other(id) == id # cameraIdentifier
    IN  [cameras |-> newCameras,
         selectedCameras |-> TruthyKeys(newCameras),
         selectionOrder |-> IF flag
                            THEN Append(state.selectionOrder, cameraIdentifier)
                            ELSE SelectSeq(state.selectionOrder, other)]

selectSingleCameraState_AddKey(state, cameraIdentifier) ==
    LET cleared == [i \in 1..Len(state.cameras) |->
                      [key |-> state.cameras[i].key, value |-> FALSE]]
    IN  [cameras |-> ObjSet(cleared, cameraIdentifier, TRUE),
         selectedCameras |-> <<cameraIdentifier>>,
         selectionOrder |-> <<cameraIdentifier>>]

\* The state selectSingleCamera's set() callback returns.
selectSingleCameraState(state, cameraIdentifier) ==
    [cameras |-> [i \in 1..Len(state.cameras) |->
                    [key |-> state.cameras[i].key,
                     value |-> state.cameras[i].key = cameraIdentifier]],
     selectedCameras |-> <<cameraIdentifier>>,
     selectionOrder |-> <<cameraIdentifier>>]

InitialStore == [cameras |-> <<>>, selectedCameras |-> <<>>, selectionOrder |-> <<>>]
NoCamOp == [op |-> "none", id |-> "", before |-> InitialStore]

toggleCamera(cameraIdentifier) ==
    /\ store' = toggleCameraState(store, cameraIdentifier)
    /\ camOp' = [op |-> "toggleCamera", id |-> cameraIdentifier, before |-> store]
    /\ UNCHANGED <<authVars, urlVars, modeVars, thrVars, evVars>>

selectSingleCamera(cameraIdentifier) ==
    /\ store' = selectSingleCameraState(store, cameraIdentifier)
    /\ camOp' = [op |-> "selectSingleCamera", id |-> cameraIdentifier,
                 before |-> store]
    /\ UNCHANGED <<authVars, urlVars, modeVars, thrVars, evVars>>

(***************************************************************************)
(* Colour mode provider (context/ColorModeContext).                        *)
(***************************************************************************)
\* localStorage.getItem returns null for a missing key.
StorageNull == "<null>"
StorageValues == {StorageNull, "dark", "light", "system", ""}

\* useMediaQuery("(prefers-color-scheme: dark)") ? "dark" : "light"
PreferredOf(matches) == IF matches THEN "dark" ELSE "light"

DeriveMode_IgnoreStored(chosen, preferred) == preferred

\* The switch of the effect: the mode it passes to setMode.
DeriveMode(chosen, preferred) ==
    CASE chosen = "dark" -> "dark"
      [] chosen = "light" -> "light"
      [] OTHER -> preferred

\* First render and commit: useState("light"); the media query hook may
\* report its default (no match) before it reports the live value.
Mount(firstMatches) ==
    /\ ~mounted
    /\ firstMatches \in {systemDark, FALSE}
    /\ mounted' = TRUE
    /\ mode' = "light"
    /\ preferredMode' = PreferredOf(firstMatches)
    /\ effectPending' = TRUE
    /\ modeOp' = "mount"
    /\ UNCHANGED <<chosenMode, systemDark>>
    /\ UNCHANGED <<authVars, urlVars, camVars, thrVars, evVars>>

\* The system colour-scheme preference changes.
SystemPreferenceChange ==
    /\ systemDark' = ~systemDark
    /\ modeOp' = "system"
    /\ UNCHANGED <<mode, chosenMode, preferredMode, effectPending, mounted>>
    /\ UNCHANGED <<authVars, urlVars, camVars, thrVars, evVars>>

\* The media query hook reports a new value: re-render with a changed
\* `preferredMode` dependency, which schedules the effect.
Render ==
    /\ mounted
    /\ preferredMode # PreferredOf(systemDark)
    /\ preferredMode' = PreferredOf(systemDark)
    /\ effectPending' = TRUE
    /\ modeOp' = "render"
    /\ UNCHANGED <<mode, chosenMode, systemDark, mounted>>
    /\ UNCHANGED <<authVars, urlVars, camVars, thrVars, evVars>>

\* The useEffect body.
RunEffect ==
    /\ mounted
    /\ effectPending
    /\ mode' = DeriveMode(chosenMode, preferredMode)
    /\ effectPending' = FALSE
    /\ modeOp' = "effect"
    /\ UNCHANGED <<chosenMode, systemDark, preferredMode, mounted>>
    /\ UNCHANGED <<authVars, urlVars, camVars, thrVars, evVars>>

\* toggleColorMode: flips the mode and stores it.
toggleColorMode ==
    /\ mounted
    /\ LET nextMode == IF mode = "light" THEN "dark" ELSE "light"
       IN  /\ mode' = nextMode
           /\ chosenMode' = nextMode
    /\ modeOp' = "toggle"
    /\ UNCHANGED <<systemDark, preferredMode, effectPending, mounted>>
    /\ UNCHANGED <<authVars, urlVars, camVars, thrVars, evVars>>

\* Another tab or the user changes or clears the stored item.
StorageChange(v) ==
    /\ v # chosenMode
    /\ chosenMode' = v
    /\ modeOp' = "storage"
    /\ UNCHANGED <<mode, systemDark, preferredMode, effectPending, mounted>>
    /\ UNCHANGED <<authVars, urlVars, camVars, thrVars, evVars>>

(***************************************************************************)
(* throttle (lib/helpers).                                                 *)
(***************************************************************************)
ThrottlePasses_Strict(t, last, frame) == t - last > frame

\* now - lastTime >= timeFrame
ThrottlePasses(t, last, frame) == t - last >= frame

NoThrOp == [op |-> "none", ran |-> FALSE, runsBefore |-> <<>>]

\* The wall clock moves, forwards or (when it is adjusted) backwards.
ClockChange(t) ==
    /\ t # now
    /\ now' = t
    /\ thrOp' = [op |-> "clock", ran |-> FALSE, runsBefore |-> runs]
    /\ UNCHANGED <<lastTime, timeFrame, runs, calls>>
    /\ UNCHANGED <<authVars, urlVars, camVars, modeVars, evVars>>

\* One call of the function throttle returned.
ThrottledCall ==
    /\ calls < MaxCalls
    /\ calls' = calls + 1
    /\ IF ThrottlePasses(now, lastTime, timeFrame)
          THEN /\ runs' = Append(runs, now)
               /\ lastTime' = now
               /\ thrOp' = [op |-> "call", ran |-> TRUE, runsBefore |-> runs]
          ELSE /\ runs' = runs
               /\ lastTime' = lastTime
               /\ thrOp' = [op |-> "call", ran |-> FALSE, runsBefore |-> runs]
    /\ UNCHANGED <<now, timeFrame>>
    /\ UNCHANGED <<authVars, urlVars, camVars, modeVars, evVars>>

(***************************************************************************)
(* Events page (pages/Events): the effect that turns a camera=c search     *)
(* parameter into the single selected camera.                              *)
(***************************************************************************)
\* A query's data: undefined until it has loaded, then an object keyed by
\* camera identifier.
QueryPending == [loaded |-> FALSE, keys |-> {}]
QueryData(keys) == [loaded |-> TRUE, keys |-> keys]
CamerasResults == {QueryData({}), QueryData({"front"}), QueryData({"front", "back"})}
FailedResults == {QueryData({}), QueryData({"garage"}), QueryData({"back", "garage"})}

\* const cameraData = useMemo(...): {} while neither query has data, else
\* the working cameras overlaid with the failed ones.
cameraData(cq, fq) ==
    IF ~cq.loaded /\ ~fq.loaded
    THEN <<>>
    ELSE [k \in cq.keys \cup fq.keys |->
            [identifier |-> k, failed |-> k \in fq.keys]]

\* objHasValues(obj)
objHasValues(obj) == DOMAIN obj # {}

\* The search parameters are a list of key/value pairs.
Param(key, value) == [key |-> key, value |-> value]
SearchHas(params, key) == \E i \in 1..Len(params) : params[i].key = key
SearchGet(params, key) ==
    params[CHOOSE i \in 1..Len(params) :
              /\ params[i].key = key
              /\ \A j \in 1..(i - 1) : params[j].key # key].value

\* The camera values a link to the page may carry: identifiers of cameras
\* the queries may return, and one that no query returns.
CameraParamValues == {"front", "back", "garage", "removed_camera"}
DateParam == Param("date", "2024-01-01")
SearchParamLists ==
    {<<>>, <<DateParam>>}
        \cup {<<Param("camera", c)>> : c \in CameraParamValues}
        \cup {<<DateParam, Param("camera", c)>> : c \in CameraParamValues}
        \cup {<<Param("camera", c), DateParam>> : c \in CameraParamValues}

\* The URL the router parsed `params` from.
RECURSIVE ParamTokens(_)
ParamTokens(params) ==
    IF params = <<>> THEN <<>>
    ELSE LET first == <<params[1].key, "=", params[1].value>>
         IN  IF Len(params) = 1 THEN first
             ELSE first \o <<"&">> \o ParamTokens(Tail(params))
HrefOf(params) ==
    IF params = <<>> THEN <<UrlBase>>
    ELSE <<UrlBase, "?">> \o ParamTokens(params)

\* States the persisted camera store may hold when the page opens.
PersistedStores ==
    { InitialStore,
      toggleCameraState(InitialStore, "front"),
      toggleCameraState(toggleCameraState(InitialStore, "garage"), "back") }

NoEvOp == [op |-> "none", hadData |-> FALSE, camera |-> "", error |-> "",
           storeBefore |-> InitialStore, hrefBefore |-> <<>>]
TypeError == "TypeError: cannot read properties of undefined (reading 'identifier')"

\* The page is mounted and its first commit has scheduled the effect.
\* useCameras({}) gets (new) data: cameraData changes, the effect is due.
CamerasQueryData(result) ==
    /\ evOp.error = ""
    /\ result # camerasQuery
    /\ camerasQuery' = result
    /\ evDue' = TRUE
    /\ UNCHANGED <<failedQuery, searchParams, evOp>>
    /\ UNCHANGED <<authVars, urlVars, camVars, modeVars, thrVars>>

\* useCamerasFailed({}) gets (new) data.
FailedQueryData(result) ==
    /\ evOp.error = ""
    /\ result # failedQuery
    /\ failedQuery' = result
    /\ evDue' = TRUE
    /\ UNCHANGED <<camerasQuery, searchParams, evOp>>
    /\ UNCHANGED <<authVars, urlVars, camVars, modeVars, thrVars>>

\* The effect body.  Reading .identifier of cameraData[c] throws when c is
\* no key of cameraData; the throw happens before selectSingleCamera runs.
EventsCameraEffect ==
    /\ evDue
    /\ evOp.error = ""
    /\ evDue' = FALSE
    /\ LET data == cameraData(camerasQuery, failedQuery)
           has == SearchHas(searchParams, "camera")
           c == IF has THEN SearchGet(searchParams, "camera") ELSE ""
           ran(error) == [op |-> "effect", hadData |-> objHasValues(data),
                          camera |-> c, error |-> error,
                          storeBefore |-> store, hrefBefore |-> href]
       IN  IF objHasValues(data) /\ has
           THEN IF c \in DOMAIN data
                THEN /\ store' = selectSingleCameraState(store, data[c].identifier)
                     /\ camOp' = [op |-> "selectSingleCamera",
                                  id |-> data[c].identifier, before |-> store]
                     /\ href' = removeURLParameter(href, <<"camera">>)
                     /\ urlOp' = urlOp
                     /\ evOp' = ran("")
                ELSE /\ evOp' = ran(TypeError)
                     /\ UNCHANGED <<store, camOp, href, urlOp>>
           ELSE /\ evOp' = ran("")
                /\ UNCHANGED <<store, camOp, href, urlOp>>
    /\ UNCHANGED <<camerasQuery, failedQuery, searchParams>>
    /\ UNCHANGED <<authVars, modeVars, thrVars>>

(***************************************************************************)
(* Specifications, one per subsystem: the subsystem starts in the state    *)
(* its construction leaves, the others stay idle.                          *)
(***************************************************************************)
InitAuth ==
    /\ auth = AuthUndefined /\ user \in CookieValues
    /\ pending = <<>> /\ done = NoRequest
    /\ href = <<UrlBase>> /\ urlOp = NoUrlOp
    /\ store = InitialStore /\ camOp = NoCamOp
    /\ mode = "light" /\ chosenMode = StorageNull /\ systemDark = FALSE
    /\ preferredMode = "light" /\ effectPending = FALSE /\ mounted = FALSE
    /\ modeOp = "none"
    /\ now = 0 /\ timeFrame = 0 /\ lastTime = 0 /\ runs = <<>> /\ calls = 0
    /\ thrOp = NoThrOp
    /\ camerasQuery = QueryPending /\ failedQuery = QueryPending
    /\ searchParams = <<>> /\ evDue = FALSE /\ evOp = NoEvOp

InitUrl ==
    /\ auth = AuthUndefined /\ user = CookieAbsent
    /\ pending = <<>> /\ done = NoRequest
    /\ href \in {<<UrlBase>> \o t : t \in SeqsUpTo(UrlTokens, MaxUrlLen)}
    /\ urlOp = NoUrlOp
    /\ store = InitialStore /\ camOp = NoCamOp
    /\ mode = "light" /\ chosenMode = StorageNull /\ systemDark = FALSE
    /\ preferredMode = "light" /\ effectPending = FALSE /\ mounted = FALSE
    /\ modeOp = "none"
    /\ now = 0 /\ timeFrame = 0 /\ lastTime = 0 /\ runs = <<>> /\ calls = 0
    /\ thrOp = NoThrOp
    /\ camerasQuery = QueryPending /\ failedQuery = QueryPending
    /\ searchParams = <<>> /\ evDue = FALSE /\ evOp = NoEvOp

InitCam ==
    /\ auth = AuthUndefined /\ user = CookieAbsent
    /\ pending = <<>> /\ done = NoRequest
    /\ href = <<UrlBase>> /\ urlOp = NoUrlOp
    /\ store = InitialStore /\ camOp = NoCamOp
    /\ mode = "light" /\ chosenMode = StorageNull /\ systemDark = FALSE
    /\ preferredMode = "light" /\ effectPending = FALSE /\ mounted = FALSE
    /\ modeOp = "none"
    /\ now = 0 /\ timeFrame = 0 /\ lastTime = 0 /\ runs = <<>> /\ calls = 0
    /\ thrOp = NoThrOp
    /\ camerasQuery = QueryPending /\ failedQuery = QueryPending
    /\ searchParams = <<>> /\ evDue = FALSE /\ evOp = NoEvOp

InitMode ==
    /\ auth = AuthUndefined /\ user = CookieAbsent
    /\ pending = <<>> /\ done = NoRequest
    /\ href = <<UrlBase>> /\ urlOp = NoUrlOp
    /\ store = InitialStore /\ camOp = NoCamOp
    /\ mode = "light" /\ chosenMode \in StorageValues /\ systemDark \in BOOLEAN
    /\ preferredMode = "light" /\ effectPending = FALSE /\ mounted = FALSE
    /\ modeOp = "none"
    /\ now = 0 /\ timeFrame = 0 /\ lastTime = 0 /\ runs = <<>> /\ calls = 0
    /\ thrOp = NoThrOp
    /\ camerasQuery = QueryPending /\ failedQuery = QueryPending
    /\ searchParams = <<>> /\ evDue = FALSE /\ evOp = NoEvOp

InitThrottle ==
    /\ auth = AuthUndefined /\ user = CookieAbsent
    /\ pending = <<>> /\ done = NoRequest
    /\ href = <<UrlBase>> /\ urlOp = NoUrlOp
    /\ store = InitialStore /\ camOp = NoCamOp
    /\ mode = "light" /\ chosenMode = StorageNull /\ systemDark = FALSE
    /\ preferredMode = "light" /\ effectPending = FALSE /\ mounted = FALSE
    /\ modeOp = "none"
    /\ now \in 0..MaxClock /\ timeFrame \in 0..MaxTimeFrame
    /\ lastTime = 0 /\ runs = <<>> /\ calls = 0
    /\ thrOp = NoThrOp
    /\ camerasQuery = QueryPending /\ failedQuery = QueryPending
    /\ searchParams = <<>> /\ evDue = FALSE /\ evOp = NoEvOp

InitEvents ==
    /\ auth = AuthUndefined /\ user = CookieAbsent
    /\ pending = <<>> /\ done = NoRequest
    /\ searchParams \in SearchParamLists
    /\ href = HrefOf(searchParams) /\ urlOp = NoUrlOp
    /\ store \in PersistedStores /\ camOp = NoCamOp
    /\ mode = "light" /\ chosenMode = StorageNull /\ systemDark = FALSE
    /\ preferredMode = "light" /\ effectPending = FALSE /\ mounted = FALSE
    /\ modeOp = "none"
    /\ now = 0 /\ timeFrame = 0 /\ lastTime = 0 /\ runs = <<>> /\ calls = 0
    /\ thrOp = NoThrOp
    /\ camerasQuery = QueryPending /\ failedQuery = QueryPending
    /\ evDue = TRUE /\ evOp = NoEvOp

NextAuth ==
    \/ \E b \in BOOLEAN : AuthQueryData(b)
    \/ \E v \in CookieValues : CookieChange(v)
    \/ \E url \in RequestUrls, h \in InitialHeaders : Request(url, h)
    \/ \E i \in 1..MaxPending, t \in TokenResults : GetTokenResolved(i, t)
    \/ \E i \in 1..MaxPending : GetTokenRejected(i)

NextUrl == \E key \in UrlKeys, value \in UrlValues : insertURLParameter(key, value)

NextCam ==
    \/ \E id \in CameraIds : toggleCamera(id)
    \/ \E id \in CameraIds : selectSingleCamera(id)

NextMode ==
    \/ \E m \in BOOLEAN : Mount(m)
    \/ SystemPreferenceChange
    \/ Render
    \/ RunEffect
    \/ toggleColorMode
    \/ \E v \in StorageValues : StorageChange(v)

NextThrottle ==
    \/ \E t \in 0..MaxClock : ClockChange(t)
    \/ ThrottledCall

SpecAuth == InitAuth /\ [][NextAuth]_vars
SpecUrl == InitUrl /\ [][NextUrl]_vars
SpecCam == InitCam /\ [][NextCam]_vars
SpecMode == InitMode /\ [][NextMode]_vars
SpecThrottle == InitThrottle /\ [][NextThrottle]_vars

NextEvents ==
    \/ \E r \in CamerasResults : CamerasQueryData(r)
    \/ \E r \in FailedResults : FailedQueryData(r)
    \/ EventsCameraEffect

SpecEvents == InitEvents /\ [][NextEvents]_vars

(***************************************************************************)
(* Properties of the auth request interceptor.                             *)
(***************************************************************************)
IsBypassUrl(url) ==
    \/ UrlIncludes(url, AuthEnabledPath)
    \/ UrlIncludes(url, AuthLoginPath)
    \/ UrlIncludes(url, OnboardingPath)

\* Every request the interceptor has seen and not forgotten.
SeenRequests == {done} \cup {pending[i] : i \in 1..Len(pending)}

\* With auth enabled, a `user` cookie and a URL that is none of the four
\* bypass URLs.
NeedsToken(r) ==
    /\ r.authSeen = AuthLoaded(TRUE)
    /\ r.userSeen # CookieAbsent
    /\ ~IsBypassUrl(r.url)
    /\ ~UrlIncludes(r.url, AuthTokenPath)

\* C1: while auth is undefined a request is let through iff its URL contains
\* "/auth/enabled"; every other request is rejected with "Request blocked,
\* auth not loaded yet." and neither sent nor suspended.
C1_BlockedUntilAuthLoaded ==
    /\ \A i \in 1..Len(pending) : pending[i].authSeen.loaded
    /\ (done.st # "none" /\ ~done.authSeen.loaded) =>
          /\ done.st = "sent" <=> UrlIncludes(done.url, AuthEnabledPath)
          /\ ~UrlIncludes(done.url, AuthEnabledPath) =>
                /\ done.st = "rejected"
                /\ done.error = BlockedError
          /\ ~done.tokenCalled

C1_Witness ==
    /\ done.st = "rejected"
    /\ ~done.authSeen.loaded
    /\ done.url = Url(<<"cameras">>)
    /\ done.error = BlockedError

\* C2: with auth enabled and no `user` cookie, a request whose URL contains
\* none of "/auth/enabled", "/auth/login", "/onboarding" is rejected with
\* "Invalid session." after the session-expired toast, without getToken.
C2_InvalidSession ==
    \A r \in SeenRequests :
        (/\ r.st # "none"
         /\ r.authSeen = AuthLoaded(TRUE)
         /\ r.userSeen = CookieAbsent
         /\ ~IsBypassUrl(r.url)) =>
            /\ r.st = "rejected"
            /\ r.error = InvalidSessionError
            /\ r.toast = <<SessionExpiredToast>>
            /\ ~r.tokenCalled

C2_Witness ==
    /\ done.st = "rejected"
    /\ done.authSeen = AuthLoaded(TRUE)
    /\ done.userSeen = CookieAbsent
    /\ done.url = Url(AuthTokenPath)
    /\ done.error = InvalidSessionError

\* C3: getToken is called only with auth enabled, a `user` cookie and a URL
\* that contains none of the four bypass paths; every other request that is
\* let through keeps its config unmodified, so a "/auth/token" request
\* never calls getToken.
C3_TokenLookupOnlyWhenNeeded ==
    /\ \A r \in SeenRequests : r.tokenCalled => NeedsToken(r)
    /\ (done.st = "sent" /\ ~NeedsToken(done)) =>
          /\ ~done.tokenCalled
          /\ done.headers = done.headers0

C3_Witness ==
    /\ done.st = "sent"
    /\ done.authSeen = AuthLoaded(TRUE)
    /\ Truthy(done.userSeen)
    /\ done.url = Url(AuthTokenPath)
    /\ done.headers = done.headers0
    /\ ~done.tokenCalled

\* C5 as stated: every released request that needed a token was released
\* after getToken completed and carries Authorization: Bearer <token> with
\* the token getToken returned.
C5_AlwaysBearer ==
    (done.st = "sent" /\ NeedsToken(done)) =>
        /\ done.tokenDone
        /\ done.headers = Bearer(done.token)

\* C5 amended: every released request that needed a token was released
\* after getToken completed; it carries Authorization: Bearer <token> when
\* getToken returned a non-empty token, and its headers are as the caller
\* set them when getToken returned null or an empty string.
C5_BearerWhenTokenTruthy ==
    (done.st = "sent" /\ NeedsToken(done)) =>
        /\ done.tokenCalled
        /\ done.tokenDone
        /\ done.token \notin {TokenNull, ""} => done.headers = Bearer(done.token)
        /\ done.token \in {TokenNull, ""} => done.headers = done.headers0

C5_Witness ==
    /\ done.st = "sent"
    /\ NeedsToken(done)
    /\ done.tokenDone
    /\ done.token = "tokA"
    /\ done.headers0 = <<"Basic", "creds">>
    /\ done.headers = Bearer("tokA")

(***************************************************************************)
(* Properties of the URL parameter helpers.                                *)
(***************************************************************************)
\* The parameters of a URL: the "&"-separated parts of everything after the
\* first "?".
UrlParams(url) ==
    LET q == IndexOf(url, "?")
    IN  IF q = 0 THEN <<>> ELSE Split(SubSeq(url, q + 1, Len(url)), "&")

\* C4: the URL insertURLParameter(key, value) pushes holds exactly one entry
\* key=..., it is key=value and the last parameter, and every other
\* parameter of the previous URL is still there in its original order.
C4_InsertReplacesKey ==
    urlOp.op = "insert" =>
        LET isKey(param) == StartsWith(param, urlOp.key \o <<"=">>)
            notKey(param) == ~isKey(param)
            new == UrlParams(href)
            old == UrlParams(urlOp.before)
        IN  /\ Len(SelectSeq(new, isKey)) = 1
            /\ Last(new) = urlOp.key \o <<"=">> \o urlOp.value
            /\ SelectSeq(new, notKey) = SelectSeq(old, notKey)

(***************************************************************************)
(* Properties of the camera selection store.                               *)
(***************************************************************************)
KeyPos(obj, k) == CHOOSE i \in 1..Len(obj) : obj[i].key = k

\* `selected` lists, once each and in key order, the keys of `obj` whose
\* flag is true.
ListsTrueKeys(selected, obj) ==
    /\ \A i \in 1..Len(selected) : ObjTruthy(obj, selected[i])
    /\ \A j \in 1..Len(obj) :
          obj[j].value => \E i \in 1..Len(selected) : selected[i] = obj[j].key
    /\ \A i, j \in 1..Len(selected) :
          i < j => KeyPos(obj, selected[i]) < KeyPos(obj, selected[j])

Without(s, id) ==
    LET other(x) == x # id
    IN  SelectSeq(s, other)

\* C6: toggleCamera(id) flips the flag of id only, leaves the flag of every
\* other camera as it was, makes selectedCameras the list of keys whose
\* flag is true, and appends id to selectionOrder when it became selected
\* and removes it when it became unselected.
C6_ToggleCamera ==
    camOp.op = "toggleCamera" =>
        LET before == camOp.before
            id == camOp.id
            was == ObjTruthy(before.cameras, id)
            is == ObjTruthy(store.cameras, id)
        IN  /\ is = ~was
            /\ ObjHas(store.cameras, id)
            /\ \A k \in CameraIds \ {id} :
                  /\ ObjHas(store.cameras, k) = ObjHas(before.cameras, k)
                  /\ ObjTruthy(store.cameras, k) = ObjTruthy(before.cameras, k)
            /\ ListsTrueKeys(store.selectedCameras, store.cameras)
            /\ is => store.selectionOrder = Append(before.selectionOrder, id)
            /\ ~is => /\ store.selectionOrder = Without(before.selectionOrder, id)
                      /\ \A i \in 1..Len(store.selectionOrder) :
                            store.selectionOrder[i] # id

C6_Witness ==
    /\ camOp.op = "toggleCamera"
    /\ ObjTruthy(camOp.before.cameras, camOp.id)
    /\ ~ObjTruthy(store.cameras, camOp.id)
    /\ Len(camOp.before.selectionOrder) >= 2
    /\ Len(store.selectionOrder) < Len(camOp.before.selectionOrder)

\* C7: selectSingleCamera(id) leaves selectedCameras = [id] and
\* selectionOrder = [id], sets the flag of every other key to false, adds
\* or removes no key, and is idempotent.
C7_SelectSingleCamera ==
    camOp.op = "selectSingleCamera" =>
        LET before == camOp.before
            id == camOp.id
        IN  /\ store.selectedCameras = <<id>>
            /\ store.selectionOrder = <<id>>
            /\ ObjKeys(store.cameras) = ObjKeys(before.cameras)
            /\ \A i \in 1..Len(store.cameras) :
                  store.cameras[i].key # id => ~store.cameras[i].value
            /\ selectSingleCameraState(store, id) = store

C7_Witness ==
    /\ camOp.op = "selectSingleCamera"
    /\ Len(camOp.before.selectedCameras) >= 2
    /\ ~ObjHas(camOp.before.cameras, camOp.id)
    /\ store.selectedCameras = <<camOp.id>>

\* C8: in every reachable store state the set of ids in selectedCameras
\* equals the set of keys of `cameras` whose flag is true.
C8_SelectedIsTrueKeys ==
    {store.selectedCameras[i] : i \in 1..Len(store.selectedCameras)}
        = {k \in CameraIds : ObjTruthy(store.cameras, k)}

(***************************************************************************)
(* Properties of the colour mode provider.                                 *)
(***************************************************************************)
\* C9: the effect is scheduled on mount and after every change of the
\* preference the provider renders with; when it has run, the mode is the
\* stored value if that is "dark" or "light" and the system preference
\* otherwise.
C9_ModeDerivedFromStorage ==
    /\ modeOp \in {"mount", "render"} => effectPending
    /\ modeOp = "effect" =>
          /\ chosenMode = "dark" => mode = "dark"
          /\ chosenMode = "light" => mode = "light"
          /\ chosenMode \notin {"dark", "light"} => mode = preferredMode

C9_Witness ==
    /\ modeOp = "effect"
    /\ chosenMode = "light"
    /\ preferredMode = "dark"
    /\ systemDark
    /\ mode = "light"

(***************************************************************************)
(* Properties of throttle.                                                 *)
(***************************************************************************)
\* The clock value of the last call that ran func; lastTime starts at 0.
LastRun(r) == IF r = <<>> THEN 0 ELSE Last(r)

\* C10: a call runs func exactly when at least timeFrame ms have passed
\* since the last call that ran it, consecutive runs are at least timeFrame
\* ms apart, and func runs only inside a call: a dropped call is never
\* made up for later.
C10_Throttle ==
    /\ thrOp.op = "call" =>
          /\ thrOp.ran <=> now - LastRun(thrOp.runsBefore) >= timeFrame
          /\ thrOp.ran => runs = Append(thrOp.runsBefore, now)
          /\ ~thrOp.ran => runs = thrOp.runsBefore
    /\ thrOp.op # "call" => runs = thrOp.runsBefore
    /\ \A i \in 1..(Len(runs) - 1) : runs[i + 1] - runs[i] >= timeFrame
    /\ (thrOp.op = "call" /\ calls = 1 /\ now >= timeFrame) => thrOp.ran /\ runs = <<now>>

C10_Witness ==
    /\ thrOp.op = "call"
    /\ ~thrOp.ran
    /\ timeFrame > 1
    /\ Len(runs) >= 2
    /\ now > Last(runs)

(***************************************************************************)
(* Properties of the Events page.                                          *)
(***************************************************************************)
\* C11: when the effect runs with non-empty camera data and a camera=c
\* search parameter, it raises no error for any c, c's identifier becomes
\* the single selected camera and the URL holds no camera parameter.
C11_CameraParamSelectsWithoutError ==
    (evOp.op = "effect" /\ evOp.hadData /\ SearchHas(searchParams, "camera")) =>
        /\ evOp.error = ""
        /\ store.selectedCameras = <<evOp.camera>>
        /\ store.selectionOrder = <<evOp.camera>>
        /\ \A i \in 1..Len(UrlParams(href)) :
              ~StartsWith(UrlParams(href)[i], <<"camera", "=">>)

=============================================================================
